---- MODULE Spec2Model ----
(***************************************************************************)
(* QuantumAlgorithm (qiskit_aqua/algorithms/quantumalgorithm.py): backend  *)
(* discovery, backend resolution, derivation of the execution             *)
(* configuration and the execute wrapper.                                  *)
(*                                                                         *)
(* Python values whose type the code inspects (None, str, list, dict) are *)
(* tagged records; backend names are TLA+ strings, on which Len, SubSeq   *)
(* and \o act character by character.                                      *)
(***************************************************************************)
EXTENDS Integers, Sequences, FiniteSets, TLC

VARIABLES backend, execute_config, qjob_config, random_seed,
          show_circuit_summary, last

vars == <<backend, execute_config, qjob_config, random_seed,
          show_circuit_summary, last>>

(* ------------------------------ bounds -------------------------------- *)

\* longest basis-gate list a caller passes
MaxGates == 3

\* longest listing the remote provider returns
MaxRemote == 2

(* --------------------------- Python values ---------------------------- *)

None == [type |-> "NoneType"]

PyStr(s) == [type |-> "str", value |-> s]

PyList(l) == [type |-> "list", value |-> l]

PyDict(d) == [type |-> "dict", value |-> d]

\* {} : the empty dict
EmptyDict == [k \in {} |-> None]

Range(seq) == {seq[i] : i \in DOMAIN seq}

\* str.startswith
startswith(s, prefix) ==
    /\ Len(prefix) <= Len(s)
    /\ SubSeq(s, 1, Len(prefix)) = prefix

\* sep.join(seq)
RECURSIVE join(_, _)
join(sep, seq) ==
    IF seq = <<>> THEN ""
    ELSE IF Len(seq) = 1 THEN seq[1]
    ELSE seq[1] \o sep \o join(sep, Tail(seq))

\* repr of a str element inside a list
quoted(seq) == [i \in DOMAIN seq |-> "'" \o seq[i] \o "'"]

\* str(a_list): Python's list repr, "['u1', 'u2']"
list_str(l) == "[" \o join(", ", quoted(l)) \o "]"

\* dict.get(key, default)
dict_get(d, key, default) == IF key \in DOMAIN d THEN d[key] ELSE default

\* list(a_set): some enumeration of the set, each member once
RECURSIVE list_of(_)
list_of(S) ==
    IF S = {} THEN <<>>
    ELSE LET x == CHOOSE y \in S : TRUE
         IN <<x>> \o list_of(S \ {x})

(* -------------------------- class constants --------------------------- *)

UNSUPPORTED_BACKENDS == <<"unitary_simulator", "clifford_simulator">>

EQUIVALENT_BACKENDS ==
    ("statevector_simulator_py" :> "statevector_simulator")
    @@ ("statevector_simulator_sympy" :> "statevector_simulator")
    @@ ("statevector_simulator_projectq" :> "statevector_simulator")
    @@ ("qasm_simulator_py" :> "qasm_simulator")
    @@ ("qasm_simulator_projectq" :> "qasm_simulator")

(* ------------------------- backend providers -------------------------- *)

\* a handle the local provider (qiskit.Aer) gives out
AerBackend(name) ==
    [backend_name |-> name, local |-> TRUE, simulator |-> TRUE,
     basis_gates |-> PyStr("u1,u2,u3,cx,id"), coupling_map |-> None]

\* a handle the remote provider (qiskit.IBMQ) gives out
IBMQBackend(name) ==
    [backend_name |-> name, local |-> FALSE, simulator |-> FALSE,
     basis_gates |-> PyList(<<"u1", "u2", "u3", "cx", "id">>),
     coupling_map |-> PyList(<<"1-0", "2-0", "2-1">>)]

\* a remote simulator that computes the exact state
RemoteStatevector ==
    [backend_name |-> "statevector_hpc", local |-> FALSE, simulator |-> TRUE,
     basis_gates |-> PyStr("u1,u2,u3,cx,id"), coupling_map |-> None]

(* ----------------------------- exceptions ----------------------------- *)

NoException == [type |-> "None"]

AquaError(message, args) == [type |-> "AquaError", message |-> message, args |-> args]

\* the lookup failure a provider's get_backend raises
KeyError(name) == [type |-> "KeyError", message |-> name, args |-> <<name>>]

\* what the circuit runner raises
RunnerError == [type |-> "Exception", message |-> "run_circuits", args |-> <<>>]

(* ----------------- register_and_get_operational_backends -------------- *)

\* has_credentials without the tests for the empty string
has_credentials_not_none(url, token) ==
    /\ url # None
    /\ token # None

\* the condition under which Credentials are built
has_credentials(url, token) ==
    /\ url # None
    /\ url # PyStr("")
    /\ token # None
    /\ token # PyStr("")

\* the body of the try block: what it raised, and ibmq_backends as it leaves it
remote_listing(env) ==
    IF env.remote = "preferences_raises"
    THEN [raised |-> TRUE, ibmq_backends |-> <<>>]
    ELSE IF ~has_credentials(env.url, env.token)
    THEN [raised |-> FALSE, ibmq_backends |-> <<>>]
    ELSE IF env.remote \in {"register_raises", "backends_raises"}
    THEN [raised |-> TRUE, ibmq_backends |-> <<>>]
    ELSE [raised |-> FALSE, ibmq_backends |-> env.ibmq]

\* the inner loop over UNSUPPORTED_BACKENDS
supported(aer_backend) ==
    \A i \in DOMAIN UNSUPPORTED_BACKENDS :
        ~startswith(aer_backend, UNSUPPORTED_BACKENDS[i])

\* the set the loop over aer_backends builds
supported_aer_backends(aer_backends) ==
    {aer_backends[i] : i \in {j \in DOMAIN aer_backends : supported(aer_backends[j])}}

\* the static method: [raised, value]; "except Exception" absorbs whatever
\* the try block raised
register_and_get_operational_backends(env) ==
    LET attempt == remote_listing(env)
        ibmq_backends == attempt.ibmq_backends
        backends == supported_aer_backends(env.aer)
    IN [raised |-> NoException,
        value |-> list_of(backends) \o ibmq_backends]

(* ------------------------ setup_quantum_backend ----------------------- *)

\* is_operational with every key of EQUIVALENT_BACKENDS taken as operational
is_operational_or_alias(name, operational_backends) ==
    \/ name \in DOMAIN EQUIVALENT_BACKENDS
    \/ name \in Range(operational_backends)

\* the membership test of the canonical name
is_operational(name, operational_backends) ==
    dict_get(EQUIVALENT_BACKENDS, name, name) \in Range(operational_backends)

\* my_backend: the handle itself, else Aer.get_backend, else on KeyError
\* IBMQ.get_backend, else AquaError when that returned None
get_backend(ref, env) ==
    IF ref.type = "BaseBackend"
    THEN [my_backend |-> ref.value, raised |-> NoException, lookups |-> 0]
    ELSE IF ref.value \in Range(env.aer)
    THEN [my_backend |-> AerBackend(ref.value), raised |-> NoException, lookups |-> 1]
    ELSE IF env.ibmq_get = "handle"
    THEN [my_backend |-> IBMQBackend(ref.value), raised |-> NoException, lookups |-> 2]
    ELSE IF env.ibmq_get = "KeyError"
    THEN [my_backend |-> None, raised |-> KeyError(ref.value), lookups |-> 2]
    ELSE [my_backend |-> None,
          raised |-> AquaError("Missing algorithm backend '{}'", <<ref.value>>),
          lookups |-> 2]

is_statevector_backend(b) ==
    IF b # None THEN startswith(b.backend_name, "statevector") ELSE FALSE

\* derive_shots without the statevector override
derive_shots_as_requested(my_backend, shots) == shots

derive_shots(my_backend, shots) ==
    IF is_statevector_backend(my_backend) THEN 1 ELSE shots

derive_noise_params(my_backend, noise_params) ==
    IF my_backend.simulator THEN noise_params ELSE None

\* self._qjob_config.pop('wait', None) on a local backend
derive_qjob_config(my_backend, qjob) ==
    IF my_backend.local THEN [k \in DOMAIN qjob \ {"wait"} |-> qjob[k]] ELSE qjob

derive_coupling_map(my_backend, coupling_map) ==
    IF coupling_map = None THEN my_backend.coupling_map ELSE coupling_map

resolve_basis_gates(my_backend, basis_gates) ==
    IF basis_gates = None THEN my_backend.basis_gates ELSE basis_gates

serialize_basis_gates(basis_gates) ==
    IF basis_gates.type = "list" THEN PyStr(list_str(basis_gates.value)) ELSE basis_gates

\* the whole method: the object's fields after the call, what it raised, and
\* what the call did on the way
setup_quantum_backend(self, ref, req, env) ==
    IF ref = None
    THEN [self |-> self, raised |-> AquaError("Missing algorithm backend", <<>>),
          discovered |-> FALSE, operational_backends |-> <<>>, lookups |-> 0,
          basis_gates |-> None]
    ELSE
    LET discovered == ref.type = "str"
        operational_backends ==
            IF discovered THEN register_and_get_operational_backends(env).value ELSE <<>>
    IN
    IF discovered /\ ~is_operational(ref.value, operational_backends)
    THEN [self |-> self,
          raised |-> AquaError("This backend '{}' is not operational for the quantum algorithm, select any one below: {}",
                               <<ref.value, operational_backends>>),
          discovered |-> discovered, operational_backends |-> operational_backends,
          lookups |-> 0, basis_gates |-> None]
    ELSE
    LET qjob == [timeout |-> req.timeout, wait |-> req.wait]
        got == get_backend(ref, env)
        my_backend == got.my_backend
    IN
    IF got.raised # NoException
    THEN [self |-> [self EXCEPT !.qjob_config = qjob], raised |-> got.raised,
          discovered |-> discovered, operational_backends |-> operational_backends,
          lookups |-> got.lookups, basis_gates |-> None]
    ELSE
    LET resolved == resolve_basis_gates(my_backend, req.basis_gates)
        config == [shots |-> derive_shots(my_backend, req.shots),
                   skip_transpiler |-> req.skip_transpiler,
                   config |-> [noise_params |-> derive_noise_params(my_backend, req.noise_params)],
                   basis_gates |-> serialize_basis_gates(resolved),
                   coupling_map |-> derive_coupling_map(my_backend, req.coupling_map),
                   initial_layout |-> req.initial_layout,
                   max_credits |-> req.max_credits,
                   seed |-> self.random_seed,
                   qobj_id |-> None,
                   hpc |-> req.hpc_params]
    IN [self |-> [self EXCEPT !.backend = my_backend,
                              !.qjob_config = derive_qjob_config(my_backend, qjob),
                              !.execute_config = config],
        raised |-> NoException,
        discovered |-> discovered, operational_backends |-> operational_backends,
        lookups |-> got.lookups, basis_gates |-> resolved]

\* execute: run_circuits is called with the object's fields; when it raises,
\* the exception leaves execute at once, otherwise the summary flag is cleared
execute(show, runner) ==
    IF runner = "raises"
    THEN [show_circuit_summary |-> show, raised |-> RunnerError]
    ELSE [show_circuit_summary |-> IF show THEN FALSE ELSE show,
          raised |-> NoException]

(* ------------------------------ inputs -------------------------------- *)

GatePool == <<"u1", "u2", "cx", "id", "u3">>

RemotePool == <<"ibmqx4", "unitary_simulator", "ibmq_qasm_simulator", "ibmq_16_melbourne">>

\* what Aer.backends() lists: with and without the Python simulators
AerListings ==
    {<<"qasm_simulator", "statevector_simulator", "unitary_simulator", "clifford_simulator">>,
     <<"qasm_simulator", "qasm_simulator_py", "statevector_simulator",
       "statevector_simulator_py", "unitary_simulator">>,
     <<"qasm_simulator_py", "statevector_simulator_py", "unitary_simulator">>}

\* what IBMQ.backends(url, token) lists
IbmqListings == {SubSeq(RemotePool, 1, n) : n \in 0..MaxRemote}

Urls == {None, PyStr(""), PyStr("https://quantumexperience.ng.bluemix.net/api")}

Tokens == {None, PyStr(""), PyStr("token")}

\* the providers as one discovery call finds them
DiscoveryEnvs ==
    [aer : AerListings, url : Urls, token : Tokens,
     remote : {"ok", "preferences_raises", "register_raises", "backends_raises"},
     ibmq : IbmqListings, ibmq_get : {"KeyError"}]

\* the providers as one setup call finds them
SetupEnvs ==
    [aer : AerListings,
     url : {None, PyStr("https://quantumexperience.ng.bluemix.net/api")},
     token : {PyStr("token")}, remote : {"ok"},
     ibmq : {SubSeq(RemotePool, 1, MaxRemote)},
     ibmq_get : {"handle", "KeyError", "None"}]

BackendNames ==
    {"statevector_simulator", "statevector_simulator_py", "qasm_simulator",
     "ibmqx4", "nonexistent_backend"}

LiveHandles == {IBMQBackend("ibmq_16_melbourne"), RemoteStatevector}

BackendRef(handle) == [type |-> "BaseBackend", value |-> handle]

Refs == {None} \cup {PyStr(n) : n \in BackendNames} \cup {BackendRef(h) : h \in LiveHandles}

BasisGates == {None, PyList(SubSeq(GatePool, 1, MaxGates))}

Requests ==
    [shots : {1024, 4096}, skip_transpiler : {FALSE},
     noise_params : {PyDict("depolarizing")}, coupling_map : {None},
     initial_layout : {None}, hpc_params : {None}, basis_gates : BasisGates,
     max_credits : {10}, timeout : {None}, wait : {5}]

(* --------------------------- state machine ---------------------------- *)

Self ==
    [backend |-> backend, execute_config |-> execute_config,
     qjob_config |-> qjob_config, random_seed |-> random_seed]

Init ==
    /\ backend = None
    /\ execute_config = EmptyDict
    /\ qjob_config = EmptyDict
    /\ random_seed = None
    /\ show_circuit_summary = FALSE
    /\ last = [op |-> "__init__"]

EnableCircuitSummary ==
    /\ show_circuit_summary' = TRUE
    /\ last' = [op |-> "enable_circuit_summary"]
    /\ UNCHANGED <<backend, execute_config, qjob_config, random_seed>>

DisableCircuitSummary ==
    /\ show_circuit_summary' = FALSE
    /\ last' = [op |-> "disable_circuit_summary"]
    /\ UNCHANGED <<backend, execute_config, qjob_config, random_seed>>

\* the providers are consulted for a name only; the remote provider gives a
\* handle only for a name it lists to an account with credentials
EnvsFor(ref) ==
    IF ref.type = "str"
    THEN {e \in SetupEnvs :
            e.ibmq_get = "handle" => (e.url # None /\ ref.value \in Range(e.ibmq))}
    ELSE {e \in SetupEnvs : e.url = None /\ e.ibmq_get = "KeyError"
                            /\ "qasm_simulator" \notin Range(e.aer)}

SetupQuantumBackend ==
    \E ref \in Refs, req \in Requests : \E env \in EnvsFor(ref) :
        \E r \in {setup_quantum_backend(Self, ref, req, env)} :
           /\ backend' = r.self.backend
           /\ execute_config' = r.self.execute_config
           /\ qjob_config' = r.self.qjob_config
           /\ last' = [op |-> "setup_quantum_backend", backend |-> ref,
                       shots |-> req.shots, raised |-> r.raised,
                       discovered |-> r.discovered,
                       operational_backends |-> r.operational_backends,
                       lookups |-> r.lookups, basis_gates |-> r.basis_gates]
           /\ UNCHANGED <<random_seed, show_circuit_summary>>

Execute ==
    \E runner \in {"returns", "raises"} :
        \E r \in {execute(show_circuit_summary, runner)} :
           /\ show_circuit_summary' = r.show_circuit_summary
           /\ last' = [op |-> "execute", raised |-> r.raised,
                       show_circuit_summary |-> show_circuit_summary]
           /\ UNCHANGED <<backend, execute_config, qjob_config, random_seed>>

\* a caller of the static method
Discover ==
    \E env \in DiscoveryEnvs :
        \E r \in {register_and_get_operational_backends(env)} :
           /\ last' = [op |-> "register_and_get_operational_backends", env |-> env,
                       raised |-> r.raised, value |-> r.value]
           /\ UNCHANGED <<backend, execute_config, qjob_config, random_seed,
                          show_circuit_summary>>

Next ==
    \/ EnableCircuitSummary
    \/ DisableCircuitSummary
    \/ SetupQuantumBackend
    \/ Execute

Spec == Init /\ [][Next]_vars

SpecDiscovery == Init /\ [][Discover]_vars

(* ------------------------------ claims -------------------------------- *)

IsSetup == last.op = "setup_quantum_backend"

IsDiscovery == last.op = "register_and_get_operational_backends"

HasUnsupportedPrefix(name) ==
    \/ startswith(name, "unitary_simulator")
    \/ startswith(name, "clifford_simulator")

Canonical(name) ==
    IF name \in DOMAIN EQUIVALENT_BACKENDS THEN EQUIVALENT_BACKENDS[name] ELSE name

\* C1: after an execute call made with the summary flag on, the flag is off,
\* whether the runner returned or raised.
C1_SummaryOffAfterExecute ==
    (last.op = "execute" /\ last.show_circuit_summary) => ~show_circuit_summary

\* C2: whenever the resolved backend is local, the job-poll configuration
\* has no 'wait' entry.
C2_LocalBackendHasNoWait ==
    (backend # None /\ backend.local) => "wait" \notin DOMAIN qjob_config

\* C3: a setup by a name that passed validation and that neither provider
\* resolved to a handle fails with AquaError and with nothing else.
C3_UnresolvedNameRaisesAquaError ==
    (/\ IsSetup
     /\ last.backend.type = "str"
     /\ Canonical(last.backend.value) \in Range(last.operational_backends)
     /\ last.lookups = 2
     /\ last.raised # NoException)
    => last.raised.type = "AquaError"

\* C4: no name with an unsupported prefix is in the list discovery returns,
\* whichever provider listed it.
C4_NoUnsupportedNameDiscovered ==
    IsDiscovery => \A n \in Range(last.value) : ~HasUnsupportedPrefix(n)

\* C5: with credentials absent or empty, or with the remote side raising,
\* discovery raises nothing and returns exactly the local names that have no
\* unsupported prefix, each once, and no remote name.
C5_DiscoveryAbsorbsRemoteFailure ==
    (/\ IsDiscovery
     /\ \/ last.env.url \in {None, PyStr("")}
        \/ last.env.token \in {None, PyStr("")}
        \/ last.env.remote # "ok")
    => LET local == {n \in Range(last.env.aer) : ~HasUnsupportedPrefix(n)}
       IN /\ last.raised = NoException
          /\ Range(last.value) = local
          /\ Len(last.value) = Cardinality(local)

\* C5 witness: credentials are present, listing the remote backends raised,
\* and the local names came back.
C5_Witness ==
    /\ IsDiscovery
    /\ last.env.url = PyStr("https://quantumexperience.ng.bluemix.net/api")
    /\ last.env.token = PyStr("token")
    /\ last.env.remote = "backends_raises"
    /\ Len(last.env.ibmq) > 0
    /\ Range(last.value) = {"qasm_simulator", "statevector_simulator"}

\* C6: a setup by a name whose canonical form is not in the operational set
\* of that call raises AquaError carrying the name and that set, and looks no
\* handle up; a setup by name that got further has its canonical form in the set.
C6_NonOperationalNameRejected ==
    (IsSetup /\ last.backend.type = "str")
    => LET name == last.backend.value
           member == Canonical(name) \in Range(last.operational_backends)
       IN /\ ~member => /\ last.raised.type = "AquaError"
                        /\ last.raised.args = <<name, last.operational_backends>>
                        /\ last.lookups = 0
          /\ (last.lookups > 0 \/ last.raised = NoException) => member

\* C6 witness: an alias whose canonical name is not operational was rejected,
\* with a non-empty operational set in the error.
C6_Witness ==
    /\ IsSetup
    /\ last.backend = PyStr("statevector_simulator_py")
    /\ "statevector_simulator" \notin Range(last.operational_backends)
    /\ last.raised.type = "AquaError"
    /\ Len(last.operational_backends) > 0
    /\ last.lookups = 0

\* C7: a setup by an alias whose canonical name is operational succeeds and
\* leaves the context holding the canonical backend.
C7_AliasYieldsCanonicalBackend ==
    (/\ IsSetup
     /\ last.backend.type = "str"
     /\ last.backend.value \in DOMAIN EQUIVALENT_BACKENDS
     /\ EQUIVALENT_BACKENDS[last.backend.value] \in Range(last.operational_backends))
    => /\ last.raised = NoException
       /\ backend # None
       /\ backend.backend_name = EQUIVALENT_BACKENDS[last.backend.value]

\* C8: basis gates that resolve to a list are stored as the comma-joined
\* string of the names; a string is stored unchanged.
C8_BasisGatesCommaJoined ==
    (IsSetup /\ last.raised = NoException)
    => IF last.basis_gates.type = "list"
       THEN execute_config.basis_gates = PyStr(join(",", last.basis_gates.value))
       ELSE execute_config.basis_gates = last.basis_gates

\* C9: whenever the resolved backend is a statevector backend, the stored
\* execution configuration has shots = 1.
C9_StatevectorShotsIsOne ==
    (backend # None /\ startswith(backend.backend_name, "statevector"))
    => execute_config.shots = 1

\* C9 witness: a setup by alias asked for 4096 shots and resolved a
\* statevector backend.
C9_Witness ==
    /\ IsSetup
    /\ last.raised = NoException
    /\ last.backend = PyStr("statevector_simulator_py")
    /\ last.shots = 4096
    /\ startswith(backend.backend_name, "statevector")
    /\ execute_config.shots = 1

\* C10: a setup call that raises leaves the resolved backend, the execution
\* configuration and the job-poll configuration as they were.
C10_FailedSetupChangesNothing ==
    [][(last'.op = "setup_quantum_backend" /\ last'.raised # NoException)
       => /\ backend' = backend
          /\ execute_config' = execute_config
          /\ qjob_config' = qjob_config]_vars

====
